---- MODULE Spec2Model ----
(***************************************************************************)
(* Critical Path Method scheduler of index.py: the task table and the      *)
(* pipeline find_earliest_latest_start_finish / calculate_critical_path /  *)
(* draw_gantt_chart that on_calculate_and_draw runs over the table's rows. *)
(* The table the button is pressed on is drawn from the tables the editor  *)
(* can hold; the functions read only its first three columns.              *)
(***************************************************************************)
EXTENDS Integers, Sequences, FiniteSets, TLC

VARIABLES
    table,                \* rows of the Treeview, in display order
    topo_order,           \* topo_order as the last run's Kahn loop left it
    critical_path_label,  \* the path shown by critical_path_label
    duration_label,       \* the number shown by duration_label
    gantt_data,           \* the bars of the last chart drawn
    outcome               \* how the last handler's pipeline run ended

vars == <<table, topo_order, critical_path_label, duration_label, gantt_data, outcome>>

----------------------------------------------------------------------------
(* Bounds of the model *)

MaxDuration == 2     \* durations of the rows of a table drawn as input: 0..MaxDuration
MaxDeps == 2         \* names in one dependency field

\* the names that occur in a table, as a task name or in a dependency field
\* (the names of the sample data)
TaskNames == <<"Task 1", "Task 2", "Task 3", "Task 4">>

----------------------------------------------------------------------------
(* Cells and rows *)

\* a cell of the columns ES, EF, LS, LF: '' before any run, 'N/A', or a number
Blank == [text |-> ""]
NotAvailable == [text |-> "N/A"]
Num(v) == [num |-> v]
IsNum(c) == DOMAIN c = {"num"}

\* the text '-' of the dependency column; any other text is a ', '-joined
\* list of names, held here as the sequence of the names joined
NoDepends == <<"-">>

Row(task, depends, duration) ==
    [task |-> task, depends |-> depends, duration |-> duration,
     es |-> Blank, ef |-> Blank, ls |-> Blank, lf |-> Blank]

\* the sample rows inserted at start-up
SampleTasks ==
    << Row("Task 1", NoDepends, 5),
       Row("Task 2", <<"Task 1">>, 3),
       Row("Task 3", <<"Task 1">>, 2),
       Row("Task 4", <<"Task 2", "Task 3">>, 4) >>

----------------------------------------------------------------------------
(* Helpers over sequences and dicts (a dict is a function on its key set) *)

Range(s) == {s[i] : i \in 1..Len(s)}
Max(S) == CHOOSE x \in S : \A y \in S : y <= x
Min(S) == CHOOSE x \in S : \A y \in S : x <= y
Reverse(s) == [i \in 1..Len(s) |-> s[Len(s) + 1 - i]]
Put(d, k, v) == [x \in DOMAIN d \cup {k} |-> IF x = k THEN v ELSE d[x]]
EmptyDict == [x \in {} |-> 0]

RECURSIVE SumSeq(_)
SumSeq(s) == IF s = <<>> THEN 0 ELSE Head(s) + SumSeq(Tail(s))

----------------------------------------------------------------------------
(* task_dict: the dict comprehension over the rows *)

\* depends.split(', ') if depends != '-' else []
Split(depends) == IF depends = NoDepends THEN <<>> ELSE depends

\* the keys in insertion order: a repeated name keeps its first position
RECURSIVE Keys(_)
Keys(tasks) ==
    IF tasks = <<>> THEN <<>>
    ELSE LET init == Keys(SubSeq(tasks, 1, Len(tasks) - 1))
             name == tasks[Len(tasks)].task
         IN IF name \in Range(init) THEN init ELSE Append(init, name)

\* ... and takes the value of its last row
LastRow(tasks, name) ==
    tasks[Max({i \in 1..Len(tasks) : tasks[i].task = name})]

task_dict(tasks) ==
    [ order    |-> Keys(tasks),
      depends  |-> [n \in Range(Keys(tasks)) |-> Split(LastRow(tasks, n).depends)],
      duration |-> [n \in Range(Keys(tasks)) |-> LastRow(tasks, n).duration] ]

----------------------------------------------------------------------------
(* Graph construction *)

\* the (dep, task) pairs in the order the double loop visits them
RECURSIVE EdgeSeq(_, _)
EdgeSeq(td, order) ==
    IF order = <<>> THEN <<>>
    ELSE LET task == Head(order)
         IN [i \in 1..Len(td.depends[task]) |-> <<td.depends[task][i], task>>]
            \o EdgeSeq(td, Tail(order))

RECURSIVE Targets(_, _)
Targets(edges, dep) ==
    IF edges = <<>> THEN <<>>
    ELSE IF Head(edges)[1] = dep
         THEN <<Head(edges)[2]>> \o Targets(Tail(edges), dep)
         ELSE Targets(Tail(edges), dep)

\* adj_list[dep]: the tasks that name dep, one entry per mention
adj_list(td) ==
    LET edges == EdgeSeq(td, td.order)
    IN [n \in Range(td.order) \cup {e[1] : e \in Range(edges)} |-> Targets(edges, n)]

\* indegrees[task]: one per name in the task's dependency list
indegrees(td) == [n \in Range(td.order) |-> Len(td.depends[n])]

----------------------------------------------------------------------------
(* Kahn's loop *)

\* (mutation) the test made against 1, as if before the decrement
Enqueue_OffByOne(indeg, neighbor, queue) ==
    IF indeg[neighbor] = 1 THEN Append(queue, neighbor) ELSE queue

\* if indegrees[neighbor] == 0: zero_indegree_queue.append(neighbor)
Enqueue(indeg, neighbor, queue) ==
    IF indeg[neighbor] = 0 THEN Append(queue, neighbor) ELSE queue

\* for neighbor in adj_list[task]: indegrees[neighbor] -= 1; ...
RECURSIVE Visit(_, _, _)
Visit(neighbors, indeg, queue) ==
    IF neighbors = <<>> THEN [indegrees |-> indeg, queue |-> queue]
    ELSE LET neighbor == Head(neighbors)
             d == [indeg EXCEPT ![neighbor] = @ - 1]
         IN Visit(Tail(neighbors), d, Enqueue(d, neighbor, queue))

\* while zero_indegree_queue: popleft, append to topo_order, visit neighbours
RECURSIVE KahnLoop(_, _, _, _)
KahnLoop(adj, indeg, queue, topo) ==
    IF queue = <<>> THEN topo
    ELSE LET task == Head(queue)
             r == Visit(adj[task], indeg, Tail(queue))
         IN KahnLoop(adj, r.indegrees, r.queue, Append(topo, task))

TopoOrder(td) ==
    LET indeg == indegrees(td)
    IN KahnLoop(adj_list(td), indeg,
                SelectSeq(td.order, LAMBDA t : indeg[t] = 0), <<>>)

----------------------------------------------------------------------------
(* Forward pass *)

\* (mutation) min in place of max
StartDate_Min(td, end_dates, task) ==
    IF td.depends[task] # <<>>
    THEN Min({end_dates[dep] : dep \in Range(td.depends[task])})
    ELSE 0

\* start_dates[task]: max of the dependencies' end dates, 0 without any
StartDate(td, end_dates, task) ==
    IF td.depends[task] # <<>>
    THEN Max({end_dates[dep] : dep \in Range(td.depends[task])})
    ELSE 0

\* for task in topo_order: ...; end_dates[dep] of a dependency without an end
\* date yet is a KeyError
RECURSIVE ForwardPass(_, _, _, _)
ForwardPass(td, topo, start_dates, end_dates) ==
    IF topo = <<>>
    THEN [raised |-> "", start_dates |-> start_dates, end_dates |-> end_dates]
    ELSE LET task == Head(topo)
             s == StartDate(td, end_dates, task)
         IN IF ~(Range(td.depends[task]) \subseteq DOMAIN end_dates)
            THEN [raised |-> "KeyError", start_dates |-> start_dates,
                  end_dates |-> end_dates]
            ELSE ForwardPass(td, Tail(topo), Put(start_dates, task, s),
                             Put(end_dates, task, s + td.duration[task]))

----------------------------------------------------------------------------
(* Backward pass *)

\* (mutation) every latest finish starts at the project end
InitLatestFinish_ProjectEnd(end_dates) ==
    [t \in DOMAIN end_dates |-> Max({end_dates[u] : u \in DOMAIN end_dates})]

\* latest_finish = {task: end_dates[task] for task in end_dates}
InitLatestFinish(end_dates) == [t \in DOMAIN end_dates |-> end_dates[t]]

\* (mutation) the duration taken off latest_start[task] instead
LatestStart_FromLatestStart(td, latest_start, latest_finish, task) ==
    latest_start[task] - td.duration[task]

\* latest_start[task] = latest_finish[task] - duration
LatestStart(td, latest_start, latest_finish, task) ==
    latest_finish[task] - td.duration[task]

\* for successor in adj_list[task]: latest_finish[task] = min(..., latest_start[successor])
\* latest_start[successor] of a successor that never got dates is a KeyError
RECURSIVE FoldSuccessors(_, _, _, _)
FoldSuccessors(successors, task, latest_start, lf) ==
    IF successors = <<>> THEN [raised |-> "", lf |-> lf]
    ELSE IF Head(successors) \notin DOMAIN latest_start
         THEN [raised |-> "KeyError", lf |-> lf]
         ELSE FoldSuccessors(Tail(successors), task, latest_start,
                             Min({lf, latest_start[Head(successors)]}))

RECURSIVE BackwardPass(_, _, _, _, _)
BackwardPass(td, adj, rtopo, latest_start, latest_finish) ==
    IF rtopo = <<>>
    THEN [raised |-> "", latest_start |-> latest_start, latest_finish |-> latest_finish]
    ELSE LET task == Head(rtopo)
             f == FoldSuccessors(adj[task], task, latest_start, latest_finish[task])
             lf == [latest_finish EXCEPT ![task] = f.lf]
             ls == [latest_start EXCEPT ![task] = LatestStart(td, latest_start, lf, task)]
         IN IF f.raised # ""
            THEN [raised |-> f.raised, latest_start |-> latest_start,
                  latest_finish |-> latest_finish]
            ELSE BackwardPass(td, adj, Tail(rtopo), ls, lf)

\* the part the two functions share: dict, graph, order, both passes
Passes(tasks) ==
    LET td == task_dict(tasks)
        topo == TopoOrder(td)
        fw == ForwardPass(td, topo, EmptyDict, EmptyDict)
        lf0 == InitLatestFinish(fw.end_dates)
        ls0 == [t \in DOMAIN fw.end_dates |-> fw.end_dates[t] - td.duration[t]]
        bw == BackwardPass(td, adj_list(td), Reverse(topo), ls0, lf0)
    IN IF fw.raised # ""
       THEN [ raised |-> fw.raised, topo_order |-> topo,
              start_dates |-> fw.start_dates, end_dates |-> fw.end_dates,
              latest_start |-> EmptyDict, latest_finish |-> EmptyDict ]
       ELSE [ raised |-> bw.raised, topo_order |-> topo,
              start_dates |-> fw.start_dates, end_dates |-> fw.end_dates,
              latest_start |-> bw.latest_start, latest_finish |-> bw.latest_finish ]

find_earliest_latest_start_finish(tasks) == Passes(tasks)

----------------------------------------------------------------------------
(* Critical path *)

\* (mutation) end_time left as it is
NextEndTime_Unchanged(td, task, end_time) == end_time

\* end_time -= task_dict[task]['duration']
NextEndTime(td, task, end_time) == end_time - td.duration[task]

\* for task in topo_order[::-1]: if end_dates[task] == end_time: append, subtract
RECURSIVE CriticalScan(_, _, _, _)
CriticalScan(td, end_dates, rtopo, end_time) ==
    IF rtopo = <<>> THEN <<>>
    ELSE LET task == Head(rtopo)
         IN IF end_dates[task] = end_time
            THEN <<task>> \o CriticalScan(td, end_dates, Tail(rtopo),
                                          NextEndTime(td, task, end_time))
            ELSE CriticalScan(td, end_dates, Tail(rtopo), end_time)

calculate_critical_path(tasks) ==
    LET td == task_dict(tasks)
        p == Passes(tasks)
        ends == {p.end_dates[t] : t \in DOMAIN p.end_dates}
    IN IF p.raised # "" THEN [raised |-> p.raised, critical_path |-> <<>>, longest |-> 0]
       ELSE IF ends = {}   \* max() of an empty sequence
       THEN [raised |-> "ValueError", critical_path |-> <<>>, longest |-> 0]
       ELSE [ raised |-> "",
              critical_path |->
                  Reverse(CriticalScan(td, p.end_dates, Reverse(p.topo_order), Max(ends))),
              longest |-> Max(ends) ]

----------------------------------------------------------------------------
(* Gantt bars *)

\* start_date of one row: 0 for '-', else max(start_dates.get(dep, 0) ...)
BarStart(depends, finished) ==
    IF depends = NoDepends THEN 0
    ELSE Max({IF dep \in DOMAIN finished THEN finished[dep] ELSE 0 : dep \in Range(depends)})

RECURSIVE GanttRows(_, _)
GanttRows(tasks, finished) ==
    IF tasks = <<>> THEN <<>>
    ELSE LET r == Head(tasks)
             start_date == BarStart(r.depends, finished)
             end_date == start_date + r.duration
         IN <<[Task |-> r.task, Start |-> start_date, Finish |-> end_date]>>
            \o GanttRows(Tail(tasks), Put(finished, r.task, end_date))

draw_gantt_chart(tasks, critical_path) ==
    LET bars == GanttRows(tasks, EmptyDict)
    IN [i \in 1..Len(bars) |->
          [Task |-> bars[i].Task, Start |-> bars[i].Start, Finish |-> bars[i].Finish,
           color |-> IF bars[i].Task \in Range(critical_path) THEN "red" ELSE "#6a5acd"]]

----------------------------------------------------------------------------
(* The handlers *)

\* EditableTreeview.get_data
get_data == table

\* dicts.get(task_name, 'N/A')
Get(d, name) == IF name \in DOMAIN d THEN Num(d[name]) ELSE NotAvailable

\* on_calculate_and_draw: nothing happens on an empty table; an exception of
\* either function ends the callback before anything is written
on_calculate_and_draw ==
    LET tasks == get_data
        s == find_earliest_latest_start_finish(tasks)
        c == calculate_critical_path(tasks)
    IN IF tasks = <<>>
       THEN /\ outcome' = "no tasks"
            /\ UNCHANGED <<table, topo_order, critical_path_label, duration_label,
                           gantt_data>>
       ELSE IF s.raised # "" \/ c.raised # ""
       THEN /\ outcome' = (IF s.raised # "" THEN s.raised ELSE c.raised)
            /\ topo_order' = s.topo_order
            /\ UNCHANGED <<table, critical_path_label, duration_label, gantt_data>>
       ELSE /\ table' = [i \in 1..Len(tasks) |->
                           [tasks[i] EXCEPT !.es = Get(s.start_dates, tasks[i].task),
                                            !.ef = Get(s.end_dates, tasks[i].task),
                                            !.ls = Get(s.latest_start, tasks[i].task),
                                            !.lf = Get(s.latest_finish, tasks[i].task)]]
            /\ topo_order' = s.topo_order
            /\ critical_path_label' = c.critical_path
            /\ duration_label' = Num(c.longest)
            /\ gantt_data' = draw_gantt_chart(tasks, c.critical_path)
            /\ outcome' = "returned"

\* the names of TaskNames at the positions S, in that order
RECURSIVE NamesAt(_)
NamesAt(S) ==
    IF S = {} THEN <<>>
    ELSE LET i == Min(S) IN <<TaskNames[i]>> \o NamesAt(S \ {i})

\* the texts of a dependency cell: '-', or up to MaxDeps different names
\* joined by ', '
DependencyTexts ==
    {IF S = {} THEN NoDepends ELSE NamesAt(S) :
        S \in {T \in SUBSET (1..Len(TaskNames)) : Cardinality(T) <= MaxDeps}}

\* the tables the editor can have built with add_task and delete_task when
\* the button is pressed: rows with different names (named in row order; the
\* functions only compare names), any dependency text, any duration; one
\* name is left for a task that no row holds
Tables ==
    UNION {[1..n -> DependencyTexts \X (0..MaxDuration)] : n \in 0..(Len(TaskNames) - 1)}

TableOf(f) == [i \in 1..Len(f) |-> Row(TaskNames[i], f[i][1], f[i][2])]

\* the sample rows in each order
Permutation(p) == [i \in 1..Len(SampleTasks) |-> SampleTasks[p[i]]]
SampleOrders ==
    {Permutation(p) : p \in {q \in [1..Len(SampleTasks) -> 1..Len(SampleTasks)] :
                                  Range(q) = 1..Len(SampleTasks)}}

Init ==
    /\ table \in {TableOf(f) : f \in Tables} \cup SampleOrders
    /\ topo_order = <<>>
    /\ critical_path_label = <<>>
    /\ duration_label = Blank
    /\ gantt_data = <<>>
    /\ outcome = "started"

Next == on_calculate_and_draw

Spec == Init /\ [][Next]_vars

----------------------------------------------------------------------------
(* Vocabulary of the properties, over the table the button was pressed on *)

Ran == outcome \notin {"started", "no tasks"}
Returned == outcome = "returned"

Rows == 1..Len(table)
TaskSet == {table[i].task : i \in Rows}
RowOf(name) == table[CHOOSE i \in Rows : table[i].task = name]
DependsOf(name) == Range(Split(RowOf(name).depends))
SuccessorsOf(name) == {t \in TaskSet : name \in DependsOf(t)}

UniqueNames == \A i, j \in Rows : table[i].task = table[j].task => i = j
Dangling == \E t \in TaskSet : ~(DependsOf(t) \subseteq TaskSet)

\* t reaches u along at most k dependency edges
RECURSIVE Reaches(_, _, _)
Reaches(t, u, k) ==
    /\ k > 0
    /\ \/ u \in DependsOf(t)
       \/ \E v \in DependsOf(t) \cap TaskSet : Reaches(v, u, k - 1)

Cyclic == \E t \in TaskSet : Reaches(t, t, Len(table))

WellFormed ==
    /\ table # <<>>
    /\ UniqueNames
    /\ ~Dangling
    /\ ~Cyclic
    /\ \A i \in Rows : table[i].duration >= 0

PositionsOf(seq, x) == {i \in 1..Len(seq) : seq[i] = x}
ProjectEnd == Max({table[i].ef.num : i \in Rows})

----------------------------------------------------------------------------
(* Properties *)

\* C1 - topological validity: in topo_order as the Kahn loop built it, no task
\* appears twice and every dependency of a task that appears is in the order
\* at a strictly earlier position.
TopologicalValidity ==
    Ran =>
        \A i \in 1..Len(topo_order) :
            /\ PositionsOf(topo_order, topo_order[i]) = {i}
            /\ \A dep \in DependsOf(topo_order[i]) :
                   \E j \in 1..(i - 1) : topo_order[j] = dep

\* a run that ordered three tasks, one of them listed in the table before a
\* task it depends on, one of them with two dependencies
TopologicalValidityWitness ==
    /\ Returned
    /\ Len(topo_order) = 3
    /\ \E i, j \in Rows : i < j /\ table[j].task \in DependsOf(table[i].task)
    /\ \E t \in TaskSet : Cardinality(DependsOf(t)) = 2

\* C2 - cycle rejection: for a table whose dependencies contain a cycle the
\* pipeline returns no schedule and no critical path (any exception counts as
\* a rejection here).
CycleRejection == (Ran /\ Cyclic) => ~Returned

\* C3 - dangling dependency rejection: for a table in which a task names a
\* dependency that is no task of the table, the pipeline returns no schedule,
\* in particular none with entries for only some of the tasks.
DanglingRejection == (Ran /\ Dangling) => ~Returned

\* C4 - critical path duration law: for a well-formed table the total shown is
\* the maximum earliest finish and the durations of the tasks on the critical
\* path add up to it.
CriticalPathDurationLaw ==
    (Returned /\ WellFormed) =>
        /\ duration_label = Num(ProjectEnd)
        /\ SumSeq([k \in 1..Len(critical_path_label) |->
                      RowOf(critical_path_label[k]).duration]) = ProjectEnd

\* a well-formed table with a task of two dependencies whose critical path
\* has several tasks, all of positive duration, and leaves a task out
CriticalPathDurationLawWitness ==
    /\ Returned /\ WellFormed
    /\ Len(critical_path_label) >= 2
    /\ Len(critical_path_label) < Len(table)
    /\ \A k \in 1..Len(critical_path_label) : RowOf(critical_path_label[k]).duration > 0
    /\ \E t \in TaskSet : Cardinality(DependsOf(t)) = 2

\* C5 - forward/backward consistency: for a well-formed table every task has
\* ES <= LS and EF <= LF.
ForwardBackwardConsistency ==
    (Returned /\ WellFormed) =>
        \A i \in Rows : /\ table[i].es.num <= table[i].ls.num
                        /\ table[i].ef.num <= table[i].lf.num

\* a well-formed table with a task of positive duration that has both a
\* dependency and a successor
ForwardBackwardConsistencyWitness ==
    /\ Returned /\ WellFormed
    /\ \E t \in TaskSet : /\ DependsOf(t) # {}
                          /\ SuccessorsOf(t) # {}
                          /\ RowOf(t).duration > 0

\* C6 - critical path membership law: for a well-formed table every task on
\* the critical path has ES = LS.
CriticalPathMembershipLaw ==
    (Returned /\ WellFormed) =>
        \A k \in 1..Len(critical_path_label) :
            RowOf(critical_path_label[k]).es = RowOf(critical_path_label[k]).ls

\* a well-formed table whose critical path holds a task that ends before the
\* project does and that nothing depends on
CriticalPathMembershipLawWitness ==
    /\ Returned /\ WellFormed
    /\ \E k \in 1..Len(critical_path_label) :
           /\ SuccessorsOf(critical_path_label[k]) = {}
           /\ RowOf(critical_path_label[k]).duration > 0
           /\ RowOf(critical_path_label[k]).ef.num < ProjectEnd

\* C7 - forward pass: for a well-formed table, in whatever order its rows
\* are, every task has ES = 0 without dependencies and else the maximum EF of
\* its dependencies, and EF = ES + duration; the sample rows give EF 5, 8, 7,
\* 12, total 12 and critical path Task 1, Task 2, Task 4.
SampleRows ==
    /\ Len(table) = Len(SampleTasks)
    /\ \A r \in Range(SampleTasks) :
           \E i \in Rows : /\ table[i].task = r.task
                           /\ table[i].depends = r.depends
                           /\ table[i].duration = r.duration

ForwardPassLaw ==
    (Returned /\ WellFormed) =>
        /\ \A i \in Rows :
              /\ table[i].es.num =
                    (IF DependsOf(table[i].task) = {} THEN 0
                     ELSE Max({RowOf(dep).ef.num : dep \in DependsOf(table[i].task)}))
              /\ table[i].ef.num = table[i].es.num + table[i].duration
        /\ SampleRows =>
              /\ RowOf("Task 1").ef = Num(5)
              /\ RowOf("Task 2").ef = Num(8)
              /\ RowOf("Task 3").ef = Num(7)
              /\ RowOf("Task 4").ef = Num(12)
              /\ duration_label = Num(12)
              /\ critical_path_label = <<"Task 1", "Task 2", "Task 4">>

\* the sample rows, computed, with Task 4 listed first
ForwardPassLawWitness ==
    /\ Returned /\ SampleRows
    /\ table[1].task = "Task 4"
    /\ IsNum(table[1].ef)

\* C8 - backward pass: for a well-formed table every task that nothing
\* depends on has LF equal to the project end, and every task with successors
\* has LF equal to the minimum LS of its successors.
BackwardPassLaw ==
    (Returned /\ WellFormed) =>
        \A i \in Rows :
            table[i].lf.num =
                (IF SuccessorsOf(table[i].task) = {} THEN ProjectEnd
                 ELSE Min({RowOf(s).ls.num : s \in SuccessorsOf(table[i].task)}))

\* C9 - the critical path is a path of the dependency graph: for a
\* well-formed table with positive durations every task on the critical path
\* after the first has the task before it among its dependencies.
CriticalPathIsAPath ==
    (Returned /\ WellFormed /\ \A i \in Rows : table[i].duration > 0) =>
        \A k \in 2..Len(critical_path_label) :
            critical_path_label[k - 1] \in DependsOf(critical_path_label[k])

\* C10 - renderer agreement: for a well-formed table, in whatever order its
\* rows are, the bar of each task starts at its ES and finishes at its EF.
RendererAgreement ==
    (Returned /\ WellFormed) =>
        \A i \in Rows : /\ gantt_data[i].Task = table[i].task
                        /\ gantt_data[i].Start = table[i].es.num
                        /\ gantt_data[i].Finish = table[i].ef.num

====
